---- MODULE Spec2Model ----
(***************************************************************************)
(* The L1 retrieval stage of the derivation pipeline                       *)
(* (crates/derive/src/stages/l1_retrieval.rs).                             *)
(*                                                                         *)
(* The stage owns the traversal stage `prev`, a data availability          *)
(* provider and one optional data iterator `data`.  next_data and reset    *)
(* are async: each suspends at most once, in provider.open_data(..).await, *)
(* so a call is modelled by the step up to that await and the step that    *)
(* resumes it with the provider's answer.  A call that does not reach the  *)
(* await is one step.                                                      *)
(***************************************************************************)
EXTENDS Integers, Sequences, FiniteSets, TLC

\* ------------------------------------------------------------------ bounds
NumBlocks   == 2      \* L1 blocks 1..NumBlocks that the chain can ever hold
MaxItems    == 2      \* longest item list the provider yields for one block
NumBatchers == 2      \* batcher addresses 1..NumBatchers
MaxLog      == 7      \* results of the first MaxLog pulls are recorded
MaxResets   == 1      \* reset calls the driver issues in one run

Blocks   == 1..NumBlocks
Batchers == 1..NumBatchers

\* ----------------------------------------------------------- Option, Result
None    == <<>>
Some(x) == <<x>>

\* anyhow::Result<Bytes>: a payload or an error message
Ok(v)   == [ok |-> TRUE,  val |-> v,    err |-> ""]
Err(m)  == [ok |-> FALSE, val |-> <<>>, err |-> m]
NoRes   == [ok |-> FALSE, val |-> <<>>, err |-> "none"]

UpstreamExhausted  == "No block to retrieve data from"
IterationExhausted == "No more data to retrieve"
OpenFailed         == "open_data failed"

VARIABLES
    data,           \* self.data: None or Some(the open data iterator)
    prev_block,     \* self.prev: the block the traversal is at, 0 before the first
    prev_batcher,   \* self.prev.system_config.batcher_addr
    upstream,       \* number of L1 blocks observable by the traversal
    feedLen,        \* provider: number of items published in each block, None
                    \* until the block's data has been opened for the first time
    pc,             \* "idle", or the call suspended in open_data: "pull_open", "reset_open"
    pend,           \* the (block, batcher) of the open_data call most recently issued
    \* history of the calls, read by the properties only
    lastOp,         \* the call most recently started: "none", "pull", "reset"
    args,           \* its arguments: Some(base, cfg batcher) for reset, else None
    lastRes,        \* the result of the call most recently completed
    entry,          \* self.data at the start of the call most recently started
    trace,          \* collaborator calls made by the call most recently started
    log,            \* results of the pulls so far, while `pure`, at most MaxLog
    pure,           \* no reset was issued and no open_data failed so far
    stale,          \* items left unread in the feed the latest reset replaced
    resets          \* number of reset calls issued

vars == <<data, prev_block, prev_batcher, upstream, feedLen, pc, pend,
          lastOp, args, lastRes, entry, trace, log, pure, stale, resets>>

\* ---------------------------------------------- data availability provider
\* An item of type T as the provider publishes it.
Item(b, a, i) == [blk |-> b, addr |-> a, idx |-> i]

\* T: Into<Bytes>, the payload handed downstream.
into(d) == <<d.blk, d.addr, d.idx>>

\* The finite ordered item list of n items of block b authored by batcher a.
ItemsOf(b, a, n) == [i \in 1..n |-> Item(b, a, i)]

\* The item counts block b can turn out to have: any, until its data was opened;
\* a block reference that is not on the chain has no data.
Lens(b) ==
    IF b \notin Blocks THEN {0}
    ELSE IF feedLen[b] = None THEN 0..MaxItems ELSE {feedLen[b][1]}

\* The provider's data once block b was seen to hold n items.
Seen(b, n) == IF b \in Blocks THEN [feedLen EXCEPT ![b] = Some(n)] ELSE feedLen

\* The iterator open_data(block, batcher) returns when it succeeds, over the n
\* items of the block; `via` records the call that opened it.
OpenData(key, via, n) ==
    [block |-> key.block, batcher |-> key.batcher, via |-> via,
     rest |-> ItemsOf(key.block, key.batcher, n)]

\* DataIter::next: the next item, if any, and the iterator after it.
IterNext(d) ==
    IF d.rest = <<>>
    THEN [item |-> None, iter |-> d]
    ELSE [item |-> Some(Head(d.rest)), iter |-> [d EXCEPT !.rest = Tail(d.rest)]]

\* ---------------------------------------------------------- traversal stage
\* L1Traversal::next_l1_block: the next block, or None when there is none yet.
next_l1_block == IF prev_block < upstream THEN Some(prev_block + 1) ELSE None

\* L1Traversal::origin: the block the traversal is at, if it has advanced.
prev_origin == IF prev_block = 0 THEN None ELSE Some(prev_block)

\* ---------------------------------------------------------- retrieval stage
\* origin, lines 44-46: the traversal's origin, passed through.
origin == prev_origin

\* next_data, line 52: the lazy open is taken when no iterator is held.
\* Variant of LazyOpen: the lazy-open branch is taken whatever the slot holds.
LazyOpenAlways(slot) == TRUE

LazyOpen(slot) == slot = None

\* Variant of PullKey: the open is keyed by the block before the one just returned.
PullKeyBehind(next, cfg_batcher) == [block |-> next - 1, batcher |-> cfg_batcher]

\* next_data, lines 58-59: the key of the lazy open.
\* Variant of PullKey: the batcher address of the first configuration is used.
PullKeyGenesisBatcher(next, cfg_batcher) == [block |-> next, batcher |-> 1]

PullKey(next, cfg_batcher) == [block |-> next, batcher |-> cfg_batcher]

\* Variant of ResetKey: the open uses the traversal's batcher address.
ResetKeyTraversal(base, cfg_batcher) == [block |-> base, batcher |-> prev_batcher]

\* reset, line 81: the key of the open.
ResetKey(base, cfg_batcher) == [block |-> base, batcher |-> cfg_batcher]

\* Variant of ResetPrev: reset moves the traversal to the base block.
ResetPrevToBase(block, base) == base

\* reset, lines 80-83: self.prev is not touched; the traversal stays at its block.
ResetPrev(block, base) == block

\* Variant of LazyStep: the exhausted traversal is reported with the iterator's message.
LazyStepWrongErr(next, cfg_batcher) ==
    IF next = None
    THEN [ret |-> Some(Err(IterationExhausted)), open |-> None]
    ELSE [ret |-> None, open |-> Some(PullKey(next[1], cfg_batcher))]

\* Variant of LazyStep: exhaustion is reported whatever the traversal answered.
LazyStepDropsBlock(next, cfg_batcher) ==
    [ret |-> Some(Err(UpstreamExhausted)), open |-> None]

\* next_data, lines 53-59: with the traversal's answer `next`, either return the
\* error at once or go on to open the data of the new block.
LazyStep(next, cfg_batcher) ==
    IF next = None
    THEN [ret |-> Some(Err(UpstreamExhausted)), open |-> None]
    ELSE [ret |-> None, open |-> Some(PullKey(next[1], cfg_batcher))]

\* Variant of SlotAfterOpen: an iterator already held is kept.
SlotAfterOpenKeep(slot, feed) == IF slot = None THEN Some(feed) ELSE slot

\* self.data = Some(open_data(..).await?): the slot after a successful open.
SlotAfterOpen(slot, feed) == Some(feed)

\* open_data(..).await? returning early: the slot is not assigned.
SlotAfterOpenErr(slot) == slot

\* Variant of Propagate: the provider's error is replaced by the stage's own.
PropagateAsExhausted(e) == Err(UpstreamExhausted)

\* open_data(..).await?: the provider's error is the call's error.
Propagate(e) == Err(e)

\* Variant of Fetch: the item is read without advancing the iterator.
FetchNoAdvance(slot) ==
    LET item == IF slot = None THEN None ELSE IterNext(slot[1]).item
    IN  IF item = None
        THEN [res |-> Err(IterationExhausted), data |-> None]
        ELSE [res |-> Ok(into(item[1])), data |-> slot]

\* Variant of Fetch: the exhausted iterator is left in the slot.
FetchKeepExhausted(slot) ==
    LET nx == IF slot = None
              THEN [item |-> None, slot |-> None]
              ELSE LET r == IterNext(slot[1])
                   IN  [item |-> r.item, slot |-> Some(r.iter)]
    IN  IF nx.item = None
        THEN [res |-> Err(IterationExhausted), data |-> nx.slot]
        ELSE [res |-> Ok(into(nx.item[1])), data |-> nx.slot]

\* Variant of Fetch: the exhausted iterator is reported with the traversal's message.
FetchUpstreamErr(slot) ==
    LET nx == IF slot = None
              THEN [item |-> None, slot |-> None]
              ELSE LET r == IterNext(slot[1])
                   IN  [item |-> r.item, slot |-> Some(r.iter)]
    IN  IF nx.item = None
        THEN [res |-> Err(UpstreamExhausted), data |-> None]
        ELSE [res |-> Ok(into(nx.item[1])), data |-> nx.slot]

\* Variant of Fetch: the slot is cleared as soon as the last item is returned.
FetchEagerClear(slot) ==
    LET nx == IF slot = None
              THEN [item |-> None, slot |-> None]
              ELSE LET r == IterNext(slot[1])
                   IN  [item |-> r.item, slot |-> Some(r.iter)]
    IN  IF nx.item = None
        THEN [res |-> Err(IterationExhausted), data |-> None]
        ELSE [res |-> Ok(into(nx.item[1])),
              data |-> IF nx.slot[1].rest = <<>> THEN None ELSE nx.slot]

\* next_data, lines 65-69: fetch the next item from the iterator.
Fetch(slot) ==
    LET nx == IF slot = None
              THEN [item |-> None, slot |-> None]
              ELSE LET r == IterNext(slot[1])
                   IN  [item |-> r.item, slot |-> Some(r.iter)]
    IN  IF nx.item = None
        THEN [res |-> Err(IterationExhausted), data |-> None]
        ELSE [res |-> Ok(into(nx.item[1])), data |-> nx.slot]

\* Variant of SlotAfterDrop: the slot was emptied before open_data was awaited.
SlotAfterDropClear(slot) == None

\* next_data line 60 / reset line 81: the future is dropped while open_data is
\* pending; the assignment to self.data, which follows the await, never runs.
SlotAfterDrop(slot) == slot

\* ------------------------------------------------------------------ history
Unread(slot) == IF slot = None THEN {} ELSE {slot[1].rest[i] : i \in 1..Len(slot[1].rest)}

Logged(res) == IF pure /\ Len(log) < MaxLog THEN Append(log, res) ELSE log

\* ------------------------------------------------------------------- actions
Init ==
    /\ data = None
    /\ prev_block = 0
    /\ prev_batcher = 1
    /\ upstream \in 0..NumBlocks
    /\ feedLen = [b \in Blocks |-> None]
    /\ pc = "idle"
    /\ pend = None
    /\ lastOp = "none"
    /\ args = None
    /\ lastRes = NoRes
    /\ entry = None
    /\ trace = <<>>
    /\ log = <<>>
    /\ pure = TRUE
    /\ stale = {}
    /\ resets = 0

\* A new L1 block becomes observable upstream.
NewL1Block ==
    /\ upstream < NumBlocks
    /\ upstream' = upstream + 1
    /\ UNCHANGED <<data, prev_block, prev_batcher, feedLen, pc, pend,
                   lastOp, args, lastRes, entry, trace, log, pure, stale, resets>>

\* next_data with no iterator held, after the traversal answered `next` and with
\* its batcher address `cfg_batcher` (lines 52-60): the call returns the error, or
\* suspends in open_data.
PullLazy(next, cfg_batcher) ==
    LET st == LazyStep(next, cfg_batcher) IN
    /\ lastOp' = "pull"
    /\ args' = None
    /\ entry' = data
    /\ IF st.ret # None
       THEN /\ lastRes' = st.ret[1]
            /\ log' = Logged(st.ret[1])
            /\ trace' = <<"next_l1_block">>
            /\ UNCHANGED <<pc, pend>>
       ELSE /\ pend' = st.open
            /\ pc' = "pull_open"
            /\ trace' = <<"next_l1_block", "open_data">>
            /\ UNCHANGED <<lastRes, log>>
    /\ UNCHANGED <<data, upstream, feedLen, pure, stale, resets>>

\* next_data with no iterator held and the traversal exhausted (lines 52-56).
PullUpstreamExhausted ==
    /\ pc = "idle"
    /\ LazyOpen(data)
    /\ next_l1_block = None
    /\ UNCHANGED <<prev_block, prev_batcher>>
    /\ PullLazy(None, prev_batcher)

\* next_data with no iterator held: the traversal advances to its next block,
\* whose system configuration holds some batcher address (lines 52-60).
PullAdvance ==
    /\ pc = "idle"
    /\ LazyOpen(data)
    /\ next_l1_block # None
    /\ prev_block' = next_l1_block[1]
    /\ \E a \in Batchers :
        /\ prev_batcher' = a
        /\ PullLazy(next_l1_block, a)

\* next_data with an iterator held (lines 64-69).
PullFetch ==
    /\ pc = "idle"
    /\ ~LazyOpen(data)
    /\ LET f == Fetch(data) IN
        /\ data' = f.data
        /\ lastRes' = f.res
        /\ log' = Logged(f.res)
    /\ lastOp' = "pull"
    /\ args' = None
    /\ entry' = data
    /\ trace' = <<"next">>
    /\ UNCHANGED <<prev_block, prev_batcher, upstream, feedLen, pc, pend,
                   pure, stale, resets>>

\* The lazy open succeeds: the iterator is stored and the first fetch follows
\* (lines 57-69).
PullOpenOk ==
    /\ pc = "pull_open"
    /\ \E n \in Lens(pend[1].block) :
        LET feed   == OpenData(pend[1], "pull", n)
            opened == SlotAfterOpen(data, feed)
            f      == Fetch(opened)
        IN  /\ feedLen' = Seen(pend[1].block, n)
            /\ data' = f.data
            /\ lastRes' = f.res
            /\ log' = Logged(f.res)
            /\ stale' = stale \ Unread(Some(feed))
    /\ pc' = "idle"
    /\ trace' = trace \o <<"open_ok", "next">>
    /\ UNCHANGED <<prev_block, prev_batcher, upstream, pend,
                   lastOp, args, entry, pure, resets>>

\* The lazy open fails: `?` returns the provider's error (line 60).
PullOpenErr ==
    /\ pc = "pull_open"
    /\ data' = SlotAfterOpenErr(data)
    /\ lastRes' = Propagate(OpenFailed)
    /\ pc' = "idle"
    /\ trace' = Append(trace, "open_err")
    /\ pure' = FALSE
    /\ log' = <<>>
    /\ UNCHANGED <<prev_block, prev_batcher, upstream, feedLen, pend,
                   lastOp, args, entry, stale, resets>>

\* reset(base, cfg): the call suspends in open_data for (base, cfg.batcher_addr)
\* (line 81).
reset ==
    /\ pc = "idle"
    /\ resets < MaxResets
    /\ resets' = resets + 1
    /\ \E base \in Blocks, cfg_batcher \in Batchers :
        /\ args' = Some([base |-> base, batcher |-> cfg_batcher])
        /\ pend' = Some(ResetKey(base, cfg_batcher))
        /\ prev_block' = ResetPrev(prev_block, base)
    /\ pc' = "reset_open"
    /\ lastOp' = "reset"
    /\ entry' = data
    /\ trace' = <<"open_data">>
    /\ pure' = FALSE
    /\ log' = <<>>
    /\ UNCHANGED <<data, prev_batcher, upstream, feedLen, lastRes, stale>>

\* The open of reset succeeds: the iterator replaces whatever was held (lines 81-82).
ResetOpenOk ==
    /\ pc = "reset_open"
    /\ \E n \in Lens(pend[1].block) :
        LET feed == OpenData(pend[1], "reset", n)
        IN  /\ feedLen' = Seen(pend[1].block, n)
            /\ data' = SlotAfterOpen(data, feed)
            /\ stale' = Unread(data) \ Unread(Some(feed))
    /\ lastRes' = Ok(<<>>)
    /\ pc' = "idle"
    /\ trace' = Append(trace, "open_ok")
    /\ UNCHANGED <<prev_block, prev_batcher, upstream, pend,
                   lastOp, args, entry, log, pure, resets>>

\* The open of reset fails: `?` returns the provider's error (line 81).
ResetOpenErr ==
    /\ pc = "reset_open"
    /\ data' = SlotAfterOpenErr(data)
    /\ lastRes' = Propagate(OpenFailed)
    /\ pc' = "idle"
    /\ trace' = Append(trace, "open_err")
    /\ UNCHANGED <<prev_block, prev_batcher, upstream, feedLen, pend,
                   lastOp, args, entry, log, pure, stale, resets>>

\* origin(): reads the traversal's origin through &self (lines 44-46).
OriginCall ==
    /\ pc = "idle"
    /\ UNCHANGED vars

Next ==
    \/ NewL1Block
    \/ OriginCall
    \/ PullUpstreamExhausted
    \/ PullAdvance
    \/ PullFetch
    \/ PullOpenOk
    \/ PullOpenErr
    \/ reset
    \/ ResetOpenOk
    \/ ResetOpenErr

Spec == Init /\ [][Next]_vars

\* The caller drops the future of next_data or reset while open_data is pending
\* (lines 60 and 81): nothing after the await runs and no result is returned.
Abandon ==
    /\ pc \in {"pull_open", "reset_open"}
    /\ data' = SlotAfterDrop(data)
    /\ lastRes' = NoRes
    /\ pc' = "idle"
    /\ trace' = Append(trace, "dropped")
    /\ pure' = FALSE
    /\ log' = <<>>
    /\ UNCHANGED <<prev_block, prev_batcher, upstream, feedLen, pend,
                   lastOp, args, entry, stale, resets>>

NextAbandon ==
    \/ NewL1Block
    \/ OriginCall
    \/ PullUpstreamExhausted
    \/ PullAdvance
    \/ PullFetch
    \/ PullOpenOk
    \/ PullOpenErr
    \/ reset
    \/ ResetOpenOk
    \/ ResetOpenErr
    \/ Abandon

\* The stage with a caller that may abandon a call suspended in open_data.
SpecAbandon == Init /\ [][NextAbandon]_vars

\* The driver only pulls, and every open_data succeeds.
NextLive ==
    \/ NewL1Block
    \/ PullUpstreamExhausted
    \/ PullAdvance
    \/ PullFetch
    \/ PullOpenOk

\* The driver keeps calling next_data, and a suspended open_data is eventually
\* answered; new L1 blocks arrive whenever they do.
SpecLive ==
    /\ Init
    /\ [][NextLive]_vars
    /\ WF_vars(PullUpstreamExhausted \/ PullAdvance \/ PullFetch)
    /\ WF_vars(PullOpenOk)

\* ------------------------------------------------------------ properties
\* A step that starts a next_data call.
PullCall == pc = "idle" /\ lastOp' = "pull" /\ upstream' = upstream

\* The last collaborator call of the call most recently started.
LastCall == IF trace = <<>> THEN "" ELSE trace[Len(trace)]

\* A result without the batcher address: the block and index of a payload, or
\* the error.
Shape(res) ==
    [ok  |-> res.ok,
     blk |-> IF res.ok THEN res.val[1] ELSE 0,
     idx |-> IF res.ok THEN res.val[3] ELSE 0,
     err |-> res.err]
D(b, i) == [ok |-> TRUE,  blk |-> b, idx |-> i, err |-> ""]
E(m)    == [ok |-> FALSE, blk |-> 0, idx |-> 0, err |-> m]

\* The payloads the recorded pulls returned, as (block, index).
Out ==
    LET got == SelectSeq(log, LAMBDA r : r.ok)
    IN  [i \in 1..Len(got) |-> <<got[i].val[1], got[i].val[3]>>]

LenOf(b) == IF feedLen[b] = None THEN 0 ELSE feedLen[b][1]

\* I1 ++ ... ++ Ib as (block, index).
RECURSIVE Concat(_)
Concat(b) ==
    IF b = 0 THEN <<>> ELSE Concat(b - 1) \o [i \in 1..LenOf(b) |-> <<b, i>>]

IsPrefix(s, t) == Len(s) <= Len(t) /\ \A i \in 1..Len(s) : s[i] = t[i]

\* C1: with no reset and no open failure, the payloads returned by the successful
\* pulls so far are a prefix of I1 ++ ... ++ In, the item lists of the blocks the
\* traversal supplied, in order: no item duplicated, omitted or reordered.
C1_OutputIsPrefixOfConcatenation ==
    pure => IsPrefix(Out, Concat(prev_block))

\* Two blocks were drained completely, in order.
C1_Witness ==
    /\ pure
    /\ prev_block >= 2
    /\ Len(Out) >= 3
    /\ Out = Concat(prev_block)
    /\ Out[1][1] # Out[Len(Out)][1]

\* The scenario of C2: only pulls, every open succeeds, B1 yields two items, B2
\* one, there is no B3, and the traversal supplied B1 and B2 when first asked
\* (it never reported exhaustion before B2's item was returned).
C2_Scenario ==
    /\ pure
    /\ upstream = 2
    /\ feedLen[1] = Some(2)
    /\ feedLen[2] \in {None, Some(1)}
    /\ \A i \in 1..Len(log) :
        log[i].err = UpstreamExhausted => \E j \in 1..(i - 1) : Shape(log[j]) = D(2, 1)

\* C2 as stated: five consecutive pulls return d1, d2, d3, UpstreamExhausted,
\* UpstreamExhausted.
C2_Orig_FivePulls ==
    (C2_Scenario /\ Len(log) >= 5) =>
        /\ Shape(log[1]) = D(1, 1)
        /\ Shape(log[2]) = D(1, 2)
        /\ Shape(log[3]) = D(2, 1)
        /\ Shape(log[4]) = E(UpstreamExhausted)
        /\ Shape(log[5]) = E(UpstreamExhausted)

\* C2 amended: the pulls return d1, d2, IterationExhausted, d3,
\* IterationExhausted, and UpstreamExhausted from the sixth pull on.
C2_PullSequence ==
    C2_Scenario =>
        \A i \in 1..Len(log) :
            Shape(log[i]) =
                CASE i = 1 -> D(1, 1)
                  [] i = 2 -> D(1, 2)
                  [] i = 3 -> E(IterationExhausted)
                  [] i = 4 -> D(2, 1)
                  [] i = 5 -> E(IterationExhausted)
                  [] OTHER -> E(UpstreamExhausted)

\* Seven pulls were made in the scenario, the last two reporting exhaustion.
C2_Witness ==
    /\ C2_Scenario
    /\ Len(log) >= 7
    /\ log[7] = Err(UpstreamExhausted)

\* C3 as stated: after a pull whose lazy open failed for block B, the next pull
\* opens B again; the traversal is not advanced past B.
C3_Orig_RetryOpensSameBlock ==
    [][(PullCall /\ lastOp = "pull" /\ LastCall = "open_err") =>
        (/\ pc' = "pull_open"
         /\ prev_block' = prev_block
         /\ pend'[1].block = pend[1].block)]_vars

\* C4 as stated: a reset whose open fails returns the error and leaves the
\* stage with no iterator, whatever it held before.
C4_Orig_FailedResetLeavesIdle ==
    (pc = "idle" /\ lastOp = "reset" /\ LastCall = "open_err") =>
        (lastRes = Err(OpenFailed) /\ data = None)

\* C5: after a successful reset(base, cfg) the stage holds exactly the iterator
\* freshly opened for (base, cfg.batcher_addr), at its first item; whatever was
\* held before is gone.
C5_ResetInstallsFreshFeed ==
    (pc = "idle" /\ lastOp = "reset" /\ LastCall = "open_ok") =>
        /\ lastRes = Ok(<<>>)
        /\ data = Some([block   |-> args[1].base,
                        batcher |-> args[1].batcher,
                        via     |-> "reset",
                        rest    |-> ItemsOf(args[1].base, args[1].batcher,
                                            LenOf(args[1].base))])

\* A reset succeeded on a stage that held unread items of another block, with a
\* batcher address other than the traversal's.
C5_Witness ==
    /\ pc = "idle" /\ lastOp = "reset" /\ LastCall = "open_ok"
    /\ entry # None
    /\ entry[1].rest # <<>>
    /\ entry[1].block # args[1].base
    /\ args[1].batcher # prev_batcher
    /\ data[1].rest # <<>>

\* C6: the pull that follows a successful reset issued while unread items were
\* held returns the first item of the reset's block (when it has one); and no
\* pull returns an item left unread in the replaced feed, unless a feed of that
\* block and batcher has been opened again since.
C6_ResetSupersedesFeed ==
    [][/\ (/\ PullCall
           /\ lastOp = "reset" /\ LastCall = "open_ok"
           /\ Unread(entry) # {}
           /\ LenOf(args[1].base) > 0)
          => (/\ pc' = "idle"
              /\ lastRes' = Ok(into(Item(args[1].base, args[1].batcher, 1))))
       /\ (pc' = "idle" /\ lastOp' = "pull" /\ lastRes'.ok)
          => lastRes'.val \notin {into(x) : x \in stale'}]_vars

\* After a reset to an earlier block replaced a feed with unread items, a pull
\* returned that block's first item.
C6_Witness ==
    /\ pc = "idle" /\ lastOp = "pull" /\ lastRes.ok
    /\ trace = <<"next">>
    /\ data # None
    /\ data[1].via = "reset"
    /\ lastRes.val[3] = 1
    /\ stale # {}
    /\ \A x \in stale : x.blk > lastRes.val[1]

\* C7: a pull with no iterator held and no further block fails with
\* UpstreamExhausted, issues no open and changes nothing of the stage, the
\* traversal or the provider; so a repeated call meets the same state.
C7_UpstreamExhaustedIsIdempotent ==
    [][(PullCall /\ data = None /\ next_l1_block = None) =>
        (/\ lastRes' = Err(UpstreamExhausted)
         /\ pc' = "idle"
         /\ trace' = <<"next_l1_block">>
         /\ UNCHANGED <<data, prev_block, prev_batcher, upstream, feedLen, pend>>)]_vars

\* Two pulls in a row reported upstream exhaustion.
C7_Witness ==
    /\ pc = "idle" /\ lastOp = "pull"
    /\ lastRes = Err(UpstreamExhausted)
    /\ data = None /\ entry = None
    /\ next_l1_block = None
    /\ Len(log) >= 2
    /\ log[Len(log)] = Err(UpstreamExhausted)
    /\ log[Len(log) - 1] = Err(UpstreamExhausted)

\* C8: a pull whose lazy open failed returns the provider's error, no item, and
\* leaves no iterator in the stage.
C8_OpenFailurePropagates ==
    (pc = "idle" /\ lastOp = "pull" /\ LastCall = "open_err") =>
        (lastRes = Err(OpenFailed) /\ data = None)

\* A lazy open failed for the second block.
C8_Witness ==
    /\ pc = "idle" /\ lastOp = "pull" /\ LastCall = "open_err"
    /\ prev_block = 2
    /\ pend[1].block = 2

\* C9: the pull that follows a pull failed with IterationExhausted finds no
\* iterator, asks the traversal first, never calls next on an iterator, and
\* either reports UpstreamExhausted or opens the block the traversal returned.
C9_AfterExhaustionAsksTraversal ==
    [][(PullCall /\ lastOp = "pull" /\ lastRes = Err(IterationExhausted)) =>
        (/\ data = None
         /\ trace'[1] = "next_l1_block"
         /\ \A i \in 1..Len(trace') : trace'[i] # "next"
         /\ pc' = "pull_open" =>
              (prev_block' = prev_block + 1 /\ pend'[1].block = prev_block')
         /\ pc' = "idle" =>
              (lastRes' = Err(UpstreamExhausted) /\ prev_block' = prev_block))]_vars

\* The pull after an IterationExhausted has asked the traversal and is opening
\* the new block.
C9_Witness ==
    /\ pc = "pull_open" /\ lastOp = "pull"
    /\ lastRes = Err(IterationExhausted)
    /\ trace = <<"next_l1_block", "open_data">>
    /\ pend[1].block = prev_block
    /\ prev_block = 2

\* C10 as stated: between calls, an open iterator is scoped to the block the
\* traversal most recently advanced to.
C10_Orig_FeedIsAtTraversalBlock ==
    (pc = "idle" /\ data # None) => data[1].block = prev_block

\* C10 amended: an iterator opened by next_data is scoped to the block the
\* traversal most recently advanced to, in every state.
C10_PullFeedIsAtTraversalBlock ==
    (data # None /\ data[1].via = "pull") => data[1].block = prev_block

\* next_data holds the iterator of the second block, with an item unread.
C10_Witness ==
    /\ pc = "idle"
    /\ data # None
    /\ data[1].via = "pull"
    /\ data[1].rest # <<>>
    /\ prev_block = 2

\* C11: a reset, from its start to its success or failure, leaves the
\* traversal's block and system configuration as they were, so origin() returns
\* the same before and after; and the traversal is moved by nothing but the lazy
\* path of next_data (so not by origin() either).
C11_ResetLeavesTraversal ==
    [][/\ (pc' = "reset_open" \/ pc = "reset_open")
          => (UNCHANGED <<prev_block, prev_batcher>> /\ origin' = origin)
       /\ (prev_block' # prev_block \/ prev_batcher' # prev_batcher \/ origin' # origin)
          => (PullCall /\ data = None /\ pc' = "pull_open")]_vars

\* A reset to another block than the traversal's has completed, and origin()
\* still is the traversal's block.
C11_Witness ==
    /\ pc = "idle" /\ lastOp = "reset"
    /\ LastCall \in {"open_ok", "open_err"}
    /\ prev_block >= 1
    /\ origin = Some(prev_block)
    /\ args[1].base # prev_block

\* The call most recently started was a pull that opened the data of a block.
OpenedByPull == lastOp = "pull" /\ trace = <<"next_l1_block", "open_data", "open_ok", "next">>

\* The pull most recently completed reached an iterator with no item left: the
\* one held at entry, or the one it had just opened for a block without items.
ReachedEmpty ==
    /\ pc = "idle" /\ lastOp = "pull"
    /\ \/ trace = <<"next">> /\ entry # None /\ entry[1].rest = <<>>
       \/ OpenedByPull /\ LenOf(pend[1].block) = 0

\* C12: a pull that reaches an iterator with no item left clears the slot and
\* fails with IterationExhausted, which is not the UpstreamExhausted error; when
\* the iterator was opened by that same pull for a block without items, the next
\* pull advances the traversal to the following block, if there is one.
C12_ExhaustedFeedIsDiscarded ==
    [][/\ ReachedEmpty' =>
            (/\ lastRes' = Err(IterationExhausted)
             /\ lastRes' # Err(UpstreamExhausted)
             /\ data' = None)
       /\ (PullCall /\ ReachedEmpty /\ OpenedByPull /\ next_l1_block # None) =>
            (/\ pc' = "pull_open"
             /\ prev_block' = prev_block + 1
             /\ pend'[1].block = prev_block + 1)]_vars

\* A pull opened a block without items and failed; the traversal is at that block.
C12_Witness ==
    /\ ReachedEmpty /\ OpenedByPull
    /\ lastRes = Err(IterationExhausted)
    /\ data = None
    /\ prev_block = pend[1].block

\* C13: upstream exhaustion is not latched. The pull that follows a pull failed
\* with UpstreamExhausted, once the traversal has a new block, advances to it and
\* opens its data with the traversal's batcher address; when that open succeeds
\* on a block with items, the pull returns the block's first item and the stage
\* holds the iterator. And a pull can be issued in every state between calls.
C13_ExhaustionIsNotLatched ==
    [][/\ (/\ PullCall
           /\ lastOp = "pull" /\ lastRes = Err(UpstreamExhausted)
           /\ next_l1_block # None)
          => (/\ pc' = "pull_open"
              /\ prev_block' = prev_block + 1
              /\ pend' = Some([block |-> prev_block', batcher |-> prev_batcher']))
       /\ (/\ pc = "pull_open" /\ lastRes = Err(UpstreamExhausted)
           /\ OpenedByPull'
           /\ feedLen'[pend[1].block] # Some(0))
          => (/\ lastRes' = Ok(into(Item(pend[1].block, pend[1].batcher, 1)))
              /\ data' # None)
       /\ pc = "idle" => ENABLED (PullUpstreamExhausted \/ PullAdvance \/ PullFetch)]_vars

\* After two pulls failed with UpstreamExhausted, a block arrived and the next
\* pull returned its first item.
C13_Witness ==
    /\ pc = "idle" /\ OpenedByPull
    /\ lastRes.ok
    /\ pure
    /\ Len(log) >= 3
    /\ log[Len(log)] = lastRes
    /\ log[Len(log) - 1] = Err(UpstreamExhausted)
    /\ log[Len(log) - 2] = Err(UpstreamExhausted)

\* Item i of block b is still owed: the block is observable upstream, and
\* either the stage has not reached it, or its open is in flight, or the item is
\* among the unread items of the held iterator.
Owed(b, i) ==
    /\ upstream >= b
    /\ \/ prev_block < b
       \/ prev_block = b /\ pc = "pull_open"
       \/ \E a \in Batchers : Item(b, a, i) \in Unread(data)

\* A pull has just returned item i of block b, or block b turned out to hold
\* fewer than i items.
Delivered(b, i) ==
    \/ feedLen[b] # None /\ i > LenOf(b)
    \/ \E a \in Batchers : pc = "idle" /\ lastOp = "pull" /\ lastRes = Ok(into(Item(b, a, i)))

\* C14: when the driver keeps calling next_data, never resets, and every open
\* succeeds, every item of every block the traversal can supply is eventually
\* returned by some pull.
C14_EveryItemIsEventuallyReturned ==
    \A b \in Blocks : \A i \in 1..MaxItems : Owed(b, i) ~> Delivered(b, i)

\* The last item of the last block is returned after the driver re-pulled
\* through both an UpstreamExhausted and an IterationExhausted.
C14_Witness ==
    /\ pc = "idle" /\ lastOp = "pull"
    /\ prev_block = NumBlocks
    /\ LenOf(NumBlocks) = MaxItems
    /\ \E a \in Batchers : lastRes = Ok(into(Item(NumBlocks, a, MaxItems)))
    /\ pure
    /\ \E j \in 1..Len(log) : log[j] = Err(UpstreamExhausted)
    /\ \E j \in 1..Len(log) : log[j] = Err(IterationExhausted)

\* Number of occurrences of the call named c in the sequence t.
Count(t, c) == Cardinality({j \in 1..Len(t) : t[j] = c})

\* C15: a pull asks the traversal at most once and opens at most once, and does
\* either only when it was entered with no iterator held; a pull entered with an
\* iterator held only fetches. After a failed open the call returns: it neither
\* advances nor opens again.
C15_OneAdvanceOneOpenPerPull ==
    [][/\ prev_block' # prev_block
          => (PullCall /\ LazyOpen(data) /\ prev_block' = prev_block + 1)
       /\ (PullCall /\ pc' = "pull_open") => LazyOpen(data)
       /\ (PullCall /\ ~LazyOpen(data))
          => (/\ UNCHANGED <<prev_block, prev_batcher, pc, pend>>
              /\ trace' = <<"next">>)
       /\ pc = "pull_open"
          => (pc' = "pull_open" \/ (pc' = "idle" /\ UNCHANGED <<prev_block, pend>>))
       /\ lastOp' = "pull"
          => (/\ Count(trace', "next_l1_block") <= 1
              /\ Count(trace', "open_data") <= 1
              /\ Count(trace', "next") <= 1
              /\ Count(trace', "open_data") = 1
                   => (entry' = None /\ trace'[1] = "next_l1_block")
              /\ Count(trace', "open_err") = 1
                   => trace' = <<"next_l1_block", "open_data", "open_err">>)]_vars

\* A pull entered with an iterator held returned an item while the traversal
\* had a further block to offer, and the traversal was left alone.
C15_Witness ==
    /\ pc = "idle" /\ lastOp = "pull"
    /\ entry # None
    /\ trace = <<"next">>
    /\ lastRes.ok
    /\ next_l1_block # None

\* C16: the open issued by next_data is for the block the traversal has just
\* advanced to and the traversal's batcher address at that pull, and the items
\* it yields are that block's for that address; the open issued by reset is for
\* the base and cfg.batcher_addr it was given, whatever the traversal holds.
C16_OpenKeys ==
    /\ (lastOp = "pull" /\ Count(trace, "open_data") = 1)
       => pend = Some([block |-> prev_block, batcher |-> prev_batcher])
    /\ (pc = "idle" /\ OpenedByPull)
       => (/\ lastRes.ok => lastRes = Ok(into(Item(prev_block, prev_batcher, 1)))
           /\ data # None
              => (/\ data[1].block = prev_block
                  /\ data[1].batcher = prev_batcher
                  /\ \A x \in Unread(data) : x.blk = prev_block /\ x.addr = prev_batcher))
    /\ lastOp = "reset"
       => pend = Some([block |-> args[1].base, batcher |-> args[1].batcher])
    /\ (pc = "idle" /\ lastOp = "reset" /\ LastCall = "open_ok")
       => (/\ data[1].block = args[1].base
           /\ data[1].batcher = args[1].batcher
           /\ \A x \in Unread(data) : x.blk = args[1].base /\ x.addr = args[1].batcher)

\* After a reset, next_data opened the second block with the traversal's second
\* batcher address and holds an unread item of it.
C16_Witness ==
    /\ pc = "idle" /\ OpenedByPull
    /\ resets = 1
    /\ prev_block = 2 /\ prev_batcher = 2
    /\ data # None
    /\ data[1].rest # <<>>
    /\ pend = Some([block |-> 2, batcher |-> 2])

\* What the pulls on block b return when next_data opened it with batcher
\* address a and it holds k items: the k items, then IterationExhausted.
BlockRun(b, a, k) ==
    [i \in 1..k |-> Ok(into(Item(b, a, i)))] \o <<Err(IterationExhausted)>>

\* The last n entries of the sequence t.
Tail_n(t, n) == SubSeq(t, Len(t) - n + 1, Len(t))

\* The recorded results other than UpstreamExhausted.
Progress == SelectSeq(log, LAMBDA r : r # Err(UpstreamExhausted))

\* When a pull has just failed with IterationExhausted, the recorded results
\* end with the run of the traversal's block, and the result before that run,
\* if any, is an error.
RunOnBlock ==
    (/\ pc = "idle" /\ lastOp = "pull" /\ lastRes = Err(IterationExhausted)
     /\ pure /\ Len(log) < MaxLog)
    => LET b == prev_block
           k == LenOf(b)
       IN  /\ Len(log) >= k + 1
           /\ Tail_n(log, k + 1) = BlockRun(b, prev_batcher, k)
           /\ Len(log) > k + 1 => ~log[Len(log) - k - 1].ok

\* C17: a pull that returns an item, the last one included, leaves the iterator
\* in the slot; the pull after the last item fails with IterationExhausted, asks
\* the traversal nothing and leaves it at the block. So the pulls on a block of
\* k >= 0 items opened by next_data return item 1 .. item k and then
\* IterationExhausted, with the traversal at that block throughout (for k = 0
\* these are one pull, the one that advanced to the block), and the traversal
\* moves on only in a later pull.
C17_ExhaustionSeenByFollowingPull ==
    [][/\ (pc' = "idle" /\ lastOp' = "pull" /\ lastRes'.ok) => data' # None
       /\ (PullCall /\ data # None /\ data[1].rest = <<>>)
          => (/\ lastRes' = Err(IterationExhausted)
              /\ trace' = <<"next">>
              /\ data' = None
              /\ UNCHANGED <<prev_block, prev_batcher, pc>>)
       /\ RunOnBlock'
       /\ (prev_block' # prev_block /\ prev_block >= 1 /\ pure /\ Len(log) < MaxLog)
          => (/\ Progress # <<>>
              /\ Progress[Len(Progress)] = Err(IterationExhausted))]_vars

\* The two items of the second block were returned and the pull after them
\* failed with IterationExhausted, the traversal still at that block.
C17_Witness ==
    /\ pc = "idle" /\ lastOp = "pull"
    /\ lastRes = Err(IterationExhausted)
    /\ trace = <<"next">>
    /\ entry # None /\ entry[1].via = "pull" /\ entry[1].block = 2
    /\ prev_block = 2
    /\ LenOf(2) = 2
    /\ pure
    /\ Len(log) < MaxLog
    /\ Tail_n(log, 3) = BlockRun(2, prev_batcher, 2)

\* The held iterator yielded one item in place (d.next() through as_mut, line
\* 65): the slot itself is not assigned.
AdvancedInPlace ==
    /\ data # None /\ data' # None
    /\ data[1].rest # <<>>
    /\ data'[1] = [data[1] EXCEPT !.rest = Tail(@)]

\* While a call is suspended in open_data, and after it failed there or was
\* abandoned there, the slot holds what it held when the call was entered; and
\* whatever the slot holds is an iterator over a suffix of the items of its
\* block.
SlotAsAtEntry ==
    /\ pc # "idle" => data = entry
    /\ (pc = "idle" /\ LastCall \in {"open_err", "dropped"}) => data = entry
    /\ data # None
       => \E j \in 0..LenOf(data[1].block) :
            data[1].rest = SubSeq(ItemsOf(data[1].block, data[1].batcher,
                                          LenOf(data[1].block)),
                                  j + 1, LenOf(data[1].block))

\* C18: self.data is assigned at two points only: when open_data has returned
\* Ok (the new iterator) and when the held iterator yields nothing (None). A
\* call suspended in open_data, or abandoned there, leaves the slot as it was
\* at entry, and the traversal stays at the block an abandoned pull advanced to.
C18_SlotWrittenAtTwoPoints ==
    [][/\ (data' # data /\ ~AdvancedInPlace)
          => \/ pc = "pull_open" /\ trace' = trace \o <<"open_ok", "next">>
             \/ pc = "reset_open" /\ trace' = Append(trace, "open_ok")
             \/ /\ PullCall /\ data # None /\ data[1].rest = <<>>
                /\ data' = None /\ lastRes' = Err(IterationExhausted)
       /\ SlotAsAtEntry'
       /\ (pc # "idle" /\ LastCall' = "dropped")
          => (/\ data' = data
              /\ pc' = "idle"
              /\ UNCHANGED <<prev_block, prev_batcher>>)
       /\ (pc = "pull_open" /\ LastCall' = "dropped")
          => (prev_block' = pend[1].block /\ prev_block' >= 1)]_vars

\* A pull that had advanced the traversal to the second block was abandoned in
\* open_data: no iterator is held and the traversal is at the second block.
C18_Witness ==
    /\ pc = "idle" /\ lastOp = "pull"
    /\ LastCall = "dropped"
    /\ data = None /\ entry = None
    /\ prev_block = 2
    /\ pend[1].block = 2
    /\ feedLen[2] = None

\* The iterator installed by a reset has been drained and the pull after its
\* last item has failed with IterationExhausted.
ResetFeedDrained ==
    /\ pc = "idle" /\ lastOp = "pull"
    /\ lastRes = Err(IterationExhausted)
    /\ entry # None /\ entry[1].via = "reset"
    /\ data = None

\* C19: from a reset until the iterator it installed is drained the traversal
\* stays where it was; the pull after the drain asks the traversal, and opens
\* the block the traversal advances to with the traversal's batcher address
\* (or fails with UpstreamExhausted when the traversal has none), whatever base
\* and cfg the reset was given.
C19_AfterResetFeedTraversalDecides ==
    [][/\ (pc' = "reset_open" \/ pc = "reset_open" \/ (data # None /\ data[1].via = "reset"))
          => UNCHANGED <<prev_block, prev_batcher>>
       /\ (PullCall /\ ResetFeedDrained /\ next_l1_block # None)
          => (/\ pc' = "pull_open"
              /\ prev_block' = next_l1_block[1]
              /\ pend' = Some([block |-> next_l1_block[1], batcher |-> prev_batcher'])
              /\ data' = None)
       /\ (PullCall /\ ResetFeedDrained /\ next_l1_block = None)
          => (/\ lastRes' = Err(UpstreamExhausted)
              /\ pc' = "idle" /\ data' = None
              /\ UNCHANGED <<prev_block, prev_batcher>>)]_vars

\* The second block's data was read through a reset before the traversal had
\* advanced at all; after the drain, next_data is opening the first block.
C19_Witness ==
    /\ pc = "pull_open" /\ lastOp = "pull"
    /\ lastRes = Err(IterationExhausted)
    /\ resets = 1
    /\ prev_block = 1
    /\ pend = Some([block |-> 1, batcher |-> prev_batcher])
    /\ feedLen[1] = None
    /\ feedLen[2] # None

====
